---- MODULE Spec2Model ----
(***************************************************************************)
(* Model of the decision core of the brot trading robot:                   *)
(*   strategies/mean_reversion.py  MeanReversionStrategy                   *)
(* Prices, percentages and day counts are integers; a float return is kept *)
(* as the pair (numerator, denominator) of the division that produces it,  *)
(* together with the IEEE-754 kind of the quotient (finite, inf, -inf,     *)
(* nan), so that threshold comparisons are exact.  Percent quantities are  *)
(* integers: drop_threshold 0.10 is 10 (percent), confidence 0.8 is 80.    *)
(***************************************************************************)
EXTENDS Integers, Sequences, FiniteSets, TLC

\* ------------------------------------------------------------- bounds
\* The strategy under check is MeanReversionStrategy(lookback_days = 1).
lookback_days == 1
\* Longest price history handed to analyze.
MaxBars == 3
\* Number of analyze calls made on the one strategy instance.
MaxCalls == 2
\* Largest addition counter the tracker is driven to.
MaxTracked == 4
\* Number of create_order calls made on the one order manager.
MaxOrders == 2
\* Last clock second of an order manager run.
MaxTime == 1

\* ------------------------------------------------- program constants
\* MEAN_REVERSION_CONFIG['DROP_THRESHOLD'] = 0.10, in percent.
DROP_THRESHOLD_PCT == 10
\* MEAN_REVERSION_CONFIG['GAIN_THRESHOLD'] * 100 = 10.0.
GAIN_THRESHOLD_PCT == 10
\* MEAN_REVERSION_CONFIG['MAX_HOLDING_DAYS'].
max_holding_days == 90
\* MEAN_REVERSION_CONFIG['MAX_ADDITIONS'].
max_additions == 3
\* TRADING_CONFIG['POSITION_SIZE_PERCENT'].
POSITION_SIZE_PERCENT == 5
\* The confidence gate of process_signal, 0.5, in percent.
MIN_CONFIDENCE_PCT == 50

\* ------------------------------------------------------- input domains
Symbols == {"AAPL", "MSFT"}

\* Close prices of the ordinary scenarios: a 10% drop is 100 -> 90.
OrdinaryPrices == {90, 100}
\* Close prices of the data-quality scenarios: zero and negative closes, and
\* a 9% drop (100 -> 91).
DegeneratePrices == {-100, 0, 91, 100}

HistoriesOver(P) == UNION {[1..n -> P] : n \in 0..MaxBars}

\* Python's None.
None == [kind |-> "None"]

\* core.models.Position, the fields the strategy reads.
Position(pnl, days) ==
    [kind |-> "Position", unrealized_pnl_percent |-> pnl, days_held |-> days]

PositionValues ==
    {Position(pnl, days) : pnl \in {GAIN_THRESHOLD_PCT - 1, GAIN_THRESHOLD_PCT},
                           days \in {max_holding_days - 1, max_holding_days}}

\* A dict with keys in K and values in V: a function on a subset of K.
Dicts(K, V) == UNION {[D -> V] : D \in SUBSET K}

\* dict.get(key, default)
Get(d, key, default) == IF key \in DOMAIN d THEN d[key] ELSE default

\* One item of the price_data dict, in insertion order.
Item(symbol, closes) == [symbol |-> symbol, closes |-> closes]

\* Ordered dicts symbol -> history: sequences of items with distinct symbols.
OrderedDicts(H) ==
    {<<>>}
    \cup {<<Item(s, h)>> : s \in Symbols, h \in H}
    \cup {<<Item(p[1], h), Item(p[2], g)>> :
            p \in {q \in Symbols \X Symbols : q[1] # q[2]}, h \in H, g \in H}

Keys(items) == {items[i].symbol : i \in 1..Len(items)}

VARIABLES
    price_data,          \* the price_data argument: ordered dict symbol -> closes
    positions,           \* the positions argument: dict symbol -> Position
    position_additions,  \* self.position_additions
    now,                 \* the clock read by datetime.now()
    calls,               \* analyze calls made so far
    outcome,             \* how the last analyze call ended
    returns,             \* the returns Series of the last analyze call
    signals,             \* the list returned by the last analyze call
    prev                 \* outcome and list of the call before the last one

VARIABLES
    added_since,         \* per symbol, the 'added' calls since its last 'opened'
                         \* or 'closed' call (history of the calls made)
    last_update          \* the last update_position_tracking call

\* The variables of the tracking calls.
tracker_vars == <<added_since, last_update>>

VARIABLES
    capital,             \* OrderManager.capital, in cents
    available_capital,   \* OrderManager.available_capital, in cents
    pending_orders,      \* OrderManager.pending_orders: dict order_id -> Order
    order_history,       \* OrderManager.order_history
    tie_up,              \* whether round() takes a decimal tie upwards
    held_quantity,       \* Position.quantity per held symbol, in 1/100 share
    broker_orders,       \* the broker's status of every order placed with it
    created,             \* create_order calls that returned an Order
    last_call            \* the last call: its name, arguments and result

\* The variables of the order manager and of the broker beside it.
order_vars == <<capital, available_capital, pending_orders, order_history,
                tie_up, held_quantity, broker_orders, created, last_call>>

VARIABLE
    cycle                \* execute_trading_cycle: its locals and its position

vars == <<price_data, positions, position_additions, now, calls,
          outcome, returns, signals, prev, tracker_vars, order_vars, cycle>>

\* ------------------------------------------------------------ pandas
\* seq.iloc[i] / seq[i] with Python's 0-based, negative-from-the-end index.
Iloc(seq, i) == IF i < 0 THEN seq[Len(seq) + i + 1] ELSE seq[i + 1]

\* float division as pandas does it: x/0 is inf, -inf or nan, never an error.
Divide(num, den) ==
    [kind |-> IF den # 0 THEN "finite"
              ELSE IF num > 0 THEN "inf"
              ELSE IF num < 0 THEN "-inf"
              ELSE "nan",
     num |-> num, den |-> den]

\* return_pct <= -self.drop_threshold on floats (a comparison with nan is False).
LeqNegDrop(return_pct) ==
    CASE return_pct.kind = "nan" -> FALSE
      [] return_pct.kind = "inf" -> FALSE
      [] return_pct.kind = "-inf" -> TRUE
      [] OTHER ->
           IF return_pct.den > 0
           THEN 100 * return_pct.num <= -DROP_THRESHOLD_PCT * return_pct.den
           ELSE 100 * return_pct.num >= -DROP_THRESHOLD_PCT * return_pct.den

\* pd.DataFrame(df_data) raises ValueError unless all columns have one length.
DataFrameOk(df_data) ==
    \A i, j \in 1..Len(df_data) : Len(df_data[i].closes) = Len(df_data[j].closes)

\* ---------------------------------------------------------- strategy
\* core.models.Signal as the strategy fills it in.  confidence is in percent.
Signal(timestamp, symbol, signal_type, confidence, reason, metadata) ==
    [kind |-> "Signal", timestamp |-> timestamp, symbol |-> symbol,
     signal_type |-> signal_type, strategy_name |-> "MeanReversion",
     confidence |-> confidence, reason |-> reason, metadata |-> metadata]

\* Mutant: the length check with <= in place of <.
EligibleStrict(prices) == ~(Len(prices) <= lookback_days + 1)

\* if len(prices) < self.lookback_days + 1: continue
Eligible(prices) == ~(Len(prices) < lookback_days + 1)

\* The df_data dict: the closes of every eligible symbol, in dict order.
DfData(data) == SelectSeq(data, LAMBDA item : Eligible(item.closes))

\* Mutant: the reference row taken at iloc[-lookback_days].
calculate_returns_off_by_one(price_history) ==
    [i \in 1..Len(price_history) |->
        LET closes == price_history[i].closes
            current_prices == Iloc(closes, -1)
            past_prices == Iloc(closes, -lookback_days)
        IN  [symbol |-> price_history[i].symbol,
             return_pct |-> Divide(current_prices - past_prices, past_prices)]]

\* calculate_returns: (iloc[-1] - iloc[-lookback_days - 1]) / iloc[-lookback_days - 1],
\* column by column.
calculate_returns(price_history) ==
    [i \in 1..Len(price_history) |->
        LET closes == price_history[i].closes
            current_prices == Iloc(closes, -1)
            past_prices == Iloc(closes, -lookback_days - 1)
        IN  [symbol |-> price_history[i].symbol,
             return_pct |-> Divide(current_prices - past_prices, past_prices)]]

\* position.unrealized_pnl_percent >= self.gain_threshold * 100
GainReached(position) == position.unrealized_pnl_percent >= GAIN_THRESHOLD_PCT

\* Mutant: the holding-period check with > in place of >=.
HoldingExpiredStrict(position) == position.days_held > max_holding_days

\* position.days_held >= self.max_holding_days
HoldingExpired(position) == position.days_held >= max_holding_days

\* self.position_additions.get(symbol, 0)
Additions(symbol) == Get(position_additions, symbol, 0)

\* Mutant: the cap check with <= in place of <.
ShouldAddInclusiveCap(symbol, return_pct) ==
    LeqNegDrop(return_pct) /\ Additions(symbol) <= max_additions

\* return_pct <= -self.drop_threshold and additions < self.max_additions
ShouldAdd(symbol, return_pct) ==
    LeqNegDrop(return_pct) /\ Additions(symbol) < max_additions

\* Mutant: the buy check with < in place of <=.
ShouldBuyStrict(return_pct) ==
    LeqNegDrop(return_pct) /\ 100 * return_pct.num # -DROP_THRESHOLD_PCT * return_pct.den

\* return_pct <= -self.drop_threshold, with no position
ShouldBuy(return_pct) == LeqNegDrop(return_pct)

\* Mutant: the holding-period rule tried before the gain rule.
_generate_signal_holding_first(symbol, return_pct, position, current_price, timestamp) ==
    IF position.kind # "None"
    THEN IF HoldingExpired(position)
         THEN Signal(timestamp, symbol, "SELL", 100,
                     "max holding period reached", None)
         ELSE IF GainReached(position)
         THEN Signal(timestamp, symbol, "SELL", 80, "taking profits", None)
         ELSE IF ShouldAdd(symbol, return_pct)
         THEN Signal(timestamp, symbol, "ADD_POSITION", 70, "Adding to position",
                     [additions |-> Additions(symbol) + 1])
         ELSE None
    ELSE IF ShouldBuy(return_pct)
         THEN Signal(timestamp, symbol, "BUY", 80, "Price dropped",
                     [entry_price |-> current_price])
         ELSE None

\* _generate_signal_for_symbol; timestamp is the value datetime.now() returns.
_generate_signal_for_symbol(symbol, return_pct, position, current_price, timestamp) ==
    IF position.kind # "None"
    THEN IF GainReached(position)
         THEN Signal(timestamp, symbol, "SELL", 80, "taking profits", None)
         ELSE IF HoldingExpired(position)
         THEN Signal(timestamp, symbol, "SELL", 100,
                     "max holding period reached", None)
         ELSE IF ShouldAdd(symbol, return_pct)
         THEN Signal(timestamp, symbol, "ADD_POSITION", 70, "Adding to position",
                     [additions |-> Additions(symbol) + 1])
         ELSE None
    ELSE IF ShouldBuy(return_pct)
         THEN Signal(timestamp, symbol, "BUY", 80, "Price dropped",
                     [entry_price |-> current_price])
         ELSE None

\* One _generate_signal_for_symbol call per column of returns.items().
Generated(rets, df, pos, timestamp) ==
    [i \in 1..Len(rets) |->
        _generate_signal_for_symbol(
            rets[i].symbol, rets[i].return_pct,
            Get(pos, rets[i].symbol, None),
            Iloc(df[i].closes, -1), timestamp)]

\* Mutant: the signal loop nested in a loop over the columns, so that every
\* signal is appended once per column.
CollectSignalsNested(rets, df, pos, timestamp) ==
    LET once == SelectSeq(Generated(rets, df, pos, timestamp),
                          LAMBDA signal : signal.kind # "None")
    IN  IF Len(df) > 1 THEN once \o once ELSE once

\* The loop over returns.items(): the signals that are not None, appended in
\* column order.
CollectSignals(rets, df, pos, timestamp) ==
    SelectSeq(Generated(rets, df, pos, timestamp),
              LAMBDA signal : signal.kind # "None")

\* Mutant: analyze counts the additions it signals.
TrackingCountsAdditions(new_signals) ==
    LET added == {new_signals[i].symbol : i \in
                    {j \in 1..Len(new_signals) :
                        new_signals[j].signal_type = "ADD_POSITION"}}
    IN  [s \in DOMAIN position_additions \cup added |->
            IF s \in added THEN Additions(s) + 1 ELSE position_additions[s]]

\* analyze assigns nothing to self.position_additions.
TrackingAfterAnalyze(new_signals) == position_additions

\* analyze(price_data, positions) on the strategy instance.
analyze ==
    /\ calls < MaxCalls
    /\ LET df_data == DfData(price_data) IN
         IF df_data = <<>>
         THEN /\ outcome' = "returned"
              /\ returns' = <<>>
              /\ signals' = <<>>
         ELSE IF ~DataFrameOk(df_data)
         THEN /\ outcome' = "ValueError"
              /\ returns' = <<>>
              /\ signals' = <<>>
         ELSE /\ outcome' = "returned"
              /\ returns' = calculate_returns(df_data)
              /\ signals' = CollectSignals(calculate_returns(df_data), df_data,
                                           positions, now)
    /\ prev' = [outcome |-> outcome, signals |-> signals]
    /\ calls' = calls + 1
    /\ now' = now + 1
    /\ position_additions' = TrackingAfterAnalyze(signals')
    /\ UNCHANGED <<price_data, positions, tracker_vars, order_vars, cycle>>

\* ----------------------------------------------------------- tracker
\* The dict d with d[key] = value.
SetItem(d, key, value) ==
    [k \in DOMAIN d \cup {key} |-> IF k = key THEN value ELSE d[k]]

\* d.pop(key, None): the dict d without key.
Pop(d, key) == [k \in DOMAIN d \ {key} |-> d[k]]

\* Mutant: 'added' on an absent entry only creates it at 0.
TrackingCreatesAtZero(symbol, action) ==
    IF action = "opened"
    THEN SetItem(position_additions, symbol, 0)
    ELSE IF action = "added"
    THEN IF symbol \in DOMAIN position_additions
         THEN SetItem(position_additions, symbol, position_additions[symbol] + 1)
         ELSE SetItem(position_additions, symbol, 0)
    ELSE IF action = "closed"
    THEN Pop(position_additions, symbol)
    ELSE position_additions

\* self.position_additions after update_position_tracking(symbol, action).
UpdatedTracking(symbol, action) ==
    IF action = "opened"
    THEN SetItem(position_additions, symbol, 0)
    ELSE IF action = "added"
    THEN SetItem(position_additions, symbol,
                 Get(position_additions, symbol, 0) + 1)
    ELSE IF action = "closed"
    THEN Pop(position_additions, symbol)
    ELSE position_additions

\* The action strings callers pass; 'reduced' is not one the method knows.
TrackingActions == {"opened", "added", "closed", "reduced"}

\* update_position_tracking(symbol, action)
update_position_tracking ==
    \E symbol \in Symbols, action \in TrackingActions :
        /\ action = "added" => Additions(symbol) < MaxTracked
        /\ position_additions' = UpdatedTracking(symbol, action)
        /\ added_since' =
              [added_since EXCEPT ![symbol] =
                  IF action \in {"opened", "closed"} THEN 0
                  ELSE IF action = "added" THEN @ + 1
                  ELSE @]
        /\ last_update' = [symbol |-> symbol, action |-> action,
                           before |-> position_additions]
        /\ UNCHANGED <<price_data, positions, now, calls, outcome, returns,
                       signals, prev, order_vars, cycle>>

\* No tracking call has been made.
TrackerIdle ==
    /\ added_since = [s \in Symbols |-> 0]
    /\ last_update = [symbol |-> "", action |-> "none", before |-> << >>]

\* ------------------------------------------------------ order manager
\* Money is in cents, prices in dollars, quantities in 1/100 share, so that
\* quantity * price is in cents.  An Optional[float] is <<>> for None and
\* <<x>> for the value x.

\* execution.orders.OrderRequest
OrderRequest(symbol, side, quantity, order_type, limit_price, stop_price) ==
    [kind |-> "OrderRequest", symbol |-> symbol, side |-> side,
     quantity |-> quantity, order_type |-> order_type,
     limit_price |-> limit_price, stop_price |-> stop_price]

\* core.models.Order as create_order fills it in.
Order(symbol, side, order_type, quantity, price, stop_price, order_id, submitted_at) ==
    [kind |-> "Order", symbol |-> symbol, side |-> side,
     order_type |-> order_type, quantity |-> quantity, price |-> price,
     stop_price |-> stop_price, order_id |-> order_id,
     submitted_at |-> submitted_at]

\* An exception of the given class raised by a call.
Raised(class) == [kind |-> class]

\* Mutant: the quantity check with < in place of <=.
InvalidAllowsZero(request) ==
    \/ request.quantity < 0
    \/ request.order_type = "LIMIT" /\ request.limit_price = <<>>
    \/ request.order_type \in {"STOP", "STOP_LIMIT"} /\ request.stop_price = <<>>

\* OrderRequest.validate raises ValueError.
Invalid(request) ==
    \/ request.quantity <= 0
    \/ request.order_type = "LIMIT" /\ request.limit_price = <<>>
    \/ request.order_type \in {"STOP", "STOP_LIMIT"} /\ request.stop_price = <<>>

\* round(num / den) to the nearest integer; a tie goes to the neighbour the
\* binary representation of the float favours, which tie_up stands for.
Round(num, den) ==
    LET n == IF den < 0 THEN -num ELSE num
        d == IF den < 0 THEN -den ELSE den
        floor == n \div d
        rest == n - floor * d
    IN  IF 2 * rest < d THEN floor
        ELSE IF 2 * rest > d THEN floor + 1
        ELSE IF tie_up THEN floor + 1 ELSE floor

\* Mutant: the share count cut off after two decimals instead of rounded.
TruncatedPositionSize(signal, current_price) ==
    LET percent_of_capital == available_capital * POSITION_SIZE_PERCENT
        position_value ==
            IF percent_of_capital <= available_capital * 100
            THEN percent_of_capital
            ELSE available_capital * 100
        n == IF current_price < 0 THEN -position_value ELSE position_value
        d == IF current_price < 0 THEN -100 * current_price ELSE 100 * current_price
    IN  IF n >= 0 THEN n \div d ELSE -((-n) \div d)

\* _calculate_position_size for current_price # 0: position_value is kept in
\* 1/100 cent, the result is round(shares, 2) in 1/100 share.
_calculate_position_size(signal, current_price) ==
    LET percent_of_capital == available_capital * POSITION_SIZE_PERCENT
        position_value ==
            IF percent_of_capital <= available_capital * 100
            THEN percent_of_capital
            ELSE available_capital * 100
    IN  Round(position_value, 100 * current_price)

\* Mutant: the confidence gate with <= in place of <.
LowConfidenceInclusive(signal) == signal.confidence <= MIN_CONFIDENCE_PCT

\* signal.confidence < 0.5
LowConfidence(signal) == signal.confidence < MIN_CONFIDENCE_PCT

\* What process_signal(signal, current_price) returns or raises.
ProcessSignalResult(signal, current_price) ==
    IF LowConfidence(signal)
    THEN None
    ELSE IF current_price = 0
    THEN Raised("ZeroDivisionError")
    ELSE LET position_size == _calculate_position_size(signal, current_price)
         IN  IF position_size = 0
             THEN None
             ELSE IF signal.signal_type = "BUY"
             THEN OrderRequest(signal.symbol, "BUY", position_size, "MARKET",
                               <<>>, <<>>)
             ELSE IF signal.signal_type = "SELL"
             THEN OrderRequest(signal.symbol, "SELL", position_size, "MARKET",
                               <<>>, <<>>)
             ELSE None

\* The signals handed to process_signal.
OrderSignals ==
    {Signal(0, s, t, c, "", None) :
        s \in Symbols, t \in {"BUY", "SELL", "ADD_POSITION"},
        c \in {MIN_CONFIDENCE_PCT - 1, MIN_CONFIDENCE_PCT, 80}}

\* The current prices handed to process_signal, in dollars.
OrderPrices == {-10, 0, 3, 100}

\* process_signal(signal, current_price)
process_signal ==
    \E signal \in OrderSignals, current_price \in OrderPrices :
        /\ last_call' = [op |-> "process_signal", signal |-> signal,
                         current_price |-> current_price,
                         result |-> ProcessSignalResult(signal, current_price)]
        /\ UNCHANGED <<capital, available_capital, pending_orders, order_history,
                       tie_up, held_quantity, broker_orders, created>>
        /\ UNCHANGED <<price_data, positions, position_additions, now, calls,
                       outcome, returns, signals, prev, tracker_vars, cycle>>

\* f"ORD_{datetime.now().strftime('%Y%m%d_%H%M%S')}_{request.symbol}": the
\* clock to the second and the symbol.
OrderId(request) == <<now, request.symbol>>

\* order.quantity * (request.limit_price or 0)
EstimatedCost(request) ==
    request.quantity *
        (IF request.limit_price = <<>> THEN 0 ELSE request.limit_price[1])

\* Mutant: capital reserved whatever the side of the order.
AvailableAfterAnySide(request) == available_capital - EstimatedCost(request)

\* self.available_capital after create_order has tracked the order.
AvailableAfter(request) ==
    IF request.side = "BUY"
    THEN available_capital - EstimatedCost(request)
    ELSE available_capital

\* Market requests callers build themselves, of each sign of quantity.
MarketRequests ==
    {OrderRequest(s, side, q, "MARKET", <<>>, <<>>) :
        s \in Symbols, side \in {"BUY", "SELL"}, q \in {-100, 0, 100}}

\* Side, type, limit price and stop price of the priced requests: each type
\* with and without the price it needs, a limit price on either side.
PricedShapes ==
    {<<"BUY", "LIMIT", <<>>, <<>>>>,
     <<"BUY", "LIMIT", <<0>>, <<>>>>,
     <<"BUY", "LIMIT", <<10>>, <<>>>>,
     <<"SELL", "LIMIT", <<10>>, <<>>>>,
     <<"SELL", "STOP", <<>>, <<>>>>,
     <<"SELL", "STOP", <<>>, <<9>>>>,
     <<"SELL", "STOP_LIMIT", <<10>>, <<>>>>,
     <<"SELL", "STOP_LIMIT", <<10>>, <<9>>>>,
     <<"BUY", "STOP_LIMIT", <<10>>, <<9>>>>}

\* Priced requests callers build themselves, of one share.
PricedRequests ==
    {OrderRequest(s, p[1], 100, p[2], p[3], p[4]) :
        s \in Symbols, p \in PricedShapes}

\* The requests callers build themselves.
RequestInputs == MarketRequests \cup PricedRequests

\* The request process_signal has just returned, if it returned one.
RequestInHand ==
    IF last_call.op = "process_signal" /\ last_call.result.kind = "OrderRequest"
    THEN {last_call.result}
    ELSE {}

\* The body of create_order(request).
CreateOrder(request) ==
        /\ created < MaxOrders
        /\ IF Invalid(request)
           THEN /\ last_call' = [op |-> "create_order", request |-> request,
                                 result |-> Raised("ValueError")]
                /\ UNCHANGED <<pending_orders, available_capital, created>>
           ELSE LET order == Order(request.symbol, request.side,
                                   request.order_type, request.quantity,
                                   request.limit_price, request.stop_price,
                                   OrderId(request), now)
                IN  /\ pending_orders' = SetItem(pending_orders, order.order_id, order)
                    /\ available_capital' = AvailableAfter(request)
                    /\ created' = created + 1
                    /\ last_call' = [op |-> "create_order", request |-> request,
                                     result |-> order]
        /\ UNCHANGED <<capital, order_history, tie_up, held_quantity, broker_orders>>
        /\ UNCHANGED <<price_data, positions, position_additions, now, calls,
                       outcome, returns, signals, prev, tracker_vars, cycle>>

\* create_order(request) on a request the caller built.
create_order == \E request \in RequestInputs : CreateOrder(request)

\* create_order(order_request) on what process_signal has just returned.
create_order_of_signal == \E request \in RequestInHand : CreateOrder(request)

\* The clock moves on to the next second.
Tick ==
    /\ now < MaxTime
    /\ now' = now + 1
    /\ last_call' = [op |-> "tick"]
    /\ UNCHANGED <<capital, available_capital, pending_orders, order_history,
                   tie_up, held_quantity, broker_orders, created>>
    /\ UNCHANGED <<price_data, positions, position_additions, calls,
                   outcome, returns, signals, prev, tracker_vars, cycle>>

\* AlpacaBroker.place_order(order) for an order create_order returned: only
\* market orders are submitted.
place_order ==
    \E order_id \in DOMAIN pending_orders \ DOMAIN broker_orders :
        /\ pending_orders[order_id].order_type = "MARKET"
        /\ broker_orders' = SetItem(broker_orders, order_id, "submitted")
        /\ last_call' = [op |-> "place_order", order_id |-> order_id]
        /\ UNCHANGED <<capital, available_capital, pending_orders, order_history,
                       tie_up, held_quantity, created>>
        /\ UNCHANGED <<price_data, positions, position_additions, now, calls,
                       outcome, returns, signals, prev, tracker_vars, cycle>>

\* AlpacaBroker.cancel_order(order_id) returning True.
cancel_order ==
    \E order_id \in DOMAIN broker_orders :
        /\ broker_orders[order_id] = "submitted"
        /\ broker_orders' = SetItem(broker_orders, order_id, "cancelled")
        /\ last_call' = [op |-> "cancel_order", order_id |-> order_id]
        /\ UNCHANGED <<capital, available_capital, pending_orders, order_history,
                       tie_up, held_quantity, created>>
        /\ UNCHANGED <<price_data, positions, position_additions, now, calls,
                       outcome, returns, signals, prev, tracker_vars, cycle>>

\* The starting capitals, in cents: a margin debt, nothing, $10, $1000.
Capitals == {-1000, 0, 1000, 100000}

\* The positions held beside the order manager, 1.5 shares each.
Holdings == Dicts({"AAPL"}, {150})

\* OrderManager(capital), nothing called yet, beside the positions held.
OrdersNew ==
    /\ available_capital = capital
    /\ pending_orders = << >>
    /\ order_history = <<>>
    /\ broker_orders = << >>
    /\ created = 0
    /\ last_call = [op |-> "none"]

\* No order manager is in use.
OrdersIdle ==
    /\ capital = 0
    /\ tie_up = FALSE
    /\ held_quantity = << >>
    /\ OrdersNew

\* ------------------------------------------------------ trading cycle
\* The returns analyze may have computed for a symbol: a drop, no move.
CycleReturns == {Divide(-10, 100), Divide(0, 100)}

\* The positions get_positions may report: one to sell, one to add to.
CyclePositions ==
    Dicts(Symbols, {Position(GAIN_THRESHOLD_PCT, 1),
                    Position(GAIN_THRESHOLD_PCT - 1, 1)})

\* The prices the signal loop finds, in dollars; 0 is a price not found.
CyclePrices == {-10, 0, 3}

\* signals = strategy.analyze(historical_data, positions): the signals of
\* the symbols in column order, given the return of each.
CycleSignals(order, rets) ==
    SelectSeq([i \in 1..Len(order) |->
                  _generate_signal_for_symbol(order[i], rets[order[i]],
                      Get(positions, order[i], None), 100, now)],
              LAMBDA signal : signal.kind # "None")

\* The orders in which analyze may go through the symbols.
SymbolOrders ==
    {<<p[1], p[2]>> : p \in {q \in Symbols \X Symbols : q[1] # q[2]}}

\* The signal loop has dealt with a signal: on to the next one, or out of
\* the loop after the last.
Advance(what) ==
    [cycle EXCEPT !.index = @ + 1,
                  !.outcomes = Append(@, what),
                  !.status = IF cycle.index = Len(cycle.signals)
                             THEN "returned" ELSE "running"]

\* One pass of `for signal in signals` in execute_trading_cycle; an
\* exception of create_order leaves the loop and the function.
process_next_signal ==
    /\ cycle.status = "running"
    /\ LET signal == cycle.signals[cycle.index]
           current_price == cycle.prices[signal.symbol]
           order_request == ProcessSignalResult(signal, current_price)
           order == Order(order_request.symbol, order_request.side,
                          order_request.order_type, order_request.quantity,
                          order_request.limit_price, order_request.stop_price,
                          OrderId(order_request), now)
       IN  IF signal.symbol \in DOMAIN positions
           THEN /\ cycle' = Advance("have position")
                /\ UNCHANGED order_vars
           ELSE IF signal.symbol \in cycle.open_symbols
           THEN /\ cycle' = Advance("open order pending")
                /\ UNCHANGED order_vars
           ELSE IF current_price = 0
           THEN /\ cycle' = Advance("no price")
                /\ UNCHANGED order_vars
           ELSE IF order_request.kind = "None"
           THEN /\ cycle' = Advance("no order")
                /\ last_call' = [op |-> "process_signal", signal |-> signal,
                                 current_price |-> current_price,
                                 result |-> order_request]
                /\ UNCHANGED <<capital, available_capital, pending_orders,
                               order_history, tie_up, held_quantity,
                               broker_orders, created>>
           ELSE IF Invalid(order_request)
           THEN /\ cycle' = [cycle EXCEPT !.status = "ValueError"]
                /\ last_call' = [op |-> "create_order", request |-> order_request,
                                 result |-> Raised("ValueError")]
                /\ UNCHANGED <<capital, available_capital, pending_orders,
                               order_history, tie_up, held_quantity,
                               broker_orders, created>>
           ELSE \E placed \in BOOLEAN :
                /\ pending_orders' = SetItem(pending_orders, order.order_id, order)
                /\ available_capital' = AvailableAfter(order_request)
                /\ created' = created + 1
                /\ broker_orders' =
                      IF placed
                      THEN SetItem(broker_orders, order.order_id, "submitted")
                      ELSE broker_orders
                /\ last_call' = [op |-> "place_order", order_id |-> order.order_id]
                /\ cycle' = Advance(IF placed THEN "placed" ELSE "not placed")
                /\ UNCHANGED <<capital, order_history, tie_up, held_quantity>>
    /\ UNCHANGED <<price_data, positions, position_additions, now, calls,
                   outcome, returns, signals, prev, tracker_vars>>

\* No trading cycle is running.
CycleIdle ==
    cycle = [status |-> "idle", signals |-> <<>>, index |-> 1,
             open_symbols |-> {}, prices |-> << >>, outcomes |-> <<>>]

\* ------------------------------------------------------------ main loop
\* The cash get_account_info may report, in cents: a margin debt, $1000.
BotCash == {-1000, 100000}

\* The positions get_positions may report: one to sell for its gain, one to
\* add to, one held for the maximum holding period.
BotPositions ==
    Dicts(Symbols, {Position(GAIN_THRESHOLD_PCT, 1),
                    Position(GAIN_THRESHOLD_PCT - 1, 1),
                    Position(GAIN_THRESHOLD_PCT - 1, max_holding_days)})

\* The symbols of the orders the broker has filled since midnight.
FilledToday == {{}, {"MSFT"}}

\* pos.unrealized_pnl_percent >= GAIN_THRESHOLD * 100 in the position
\* pre-check of execute_trading_cycle.
PreCheckSells(position) == position.unrealized_pnl_percent >= GAIN_THRESHOLD_PCT

\* Mutant: analyze returning every signal twice.
CycleSignalsTwice(order, rets) ==
    LET once == SelectSeq([i \in 1..Len(order) |->
                    _generate_signal_for_symbol(order[i], rets[order[i]],
                        Get(positions, order[i], None), 100, now)],
                    LAMBDA signal : signal.kind # "None")
    IN  once \o once

\* The signals analyze returns in a cycle of the main loop.
BotSignals(order, rets) == CycleSignals(order, rets)

\* Mutant: a handler for ValueError only.
CaughtOnlyValueError(status) == status \in {"returned", "ValueError"}

\* execute_trading_cycle has returned, or raised what `except Exception`
\* catches.
Caught(status) == status \in {"returned", "ValueError", "Exception"}

\* Mutant: no pause after a cycle that raised.
SecondsSleptNotOnError(status) == IF status = "returned" THEN 60 ELSE 0

\* time.sleep(CHECK_INTERVAL_SECONDS) after a cycle that returned,
\* time.sleep(30) in the handler of one that raised.
SecondsSlept(status) == IF status = "returned" THEN 60 ELSE 30

\* What main holds between two cycles: nothing of the cycle that ended but
\* the mark of which cycle comes next.
Between(status, turn, slept, held_before) ==
    [status |-> status, signals |-> <<>>, index |-> 1, open_symbols |-> {},
     prices |-> << >>, outcomes |-> <<>>, turn |-> turn, slept |-> slept,
     held_before |-> held_before, carried |-> {}, opened |-> {},
     sold |-> <<>>, open_truth |-> {}, filled_truth |-> {},
     filled_symbols |-> {}]

\* execute_trading_cycle from its first line to the head of its signal
\* loop: a new strategy, broker and order manager, the position pre-check,
\* analyze, the queries for open and filled orders.  Any of its calls may
\* raise.  `carried` are the positions open since before the last cycle.
\* The broker reports one of the given positions, open orders and fills.
StartCycle(reported_positions, reported_open, reported_filled) ==
    /\ cycle.status \in {"boot", "waited"}
    /\ UNCHANGED <<price_data, now, calls, outcome, returns, signals, prev,
                   tracker_vars>>
    /\ \/ /\ cycle' = [cycle EXCEPT !.status = "Exception", !.turn = 1 - @]
          /\ UNCHANGED <<positions, position_additions, order_vars>>
       \/ \E cash \in BotCash, held \in reported_positions, order \in SymbolOrders,
             rets \in [Symbols -> CycleReturns], accepted \in SUBSET Symbols,
             open_truth \in reported_open, open_failed \in BOOLEAN,
             filled_truth \in reported_filled, filled_failed \in BOOLEAN :
           \E carried \in SUBSET (DOMAIN held \cap cycle.held_before) :
             /\ capital' = cash
             /\ available_capital' = cash
             /\ pending_orders' = << >>
             /\ order_history' = <<>>
             /\ created' = 0
             /\ last_call' = [op |-> "none"]
             /\ positions' = held
             /\ position_additions' = [symbol \in DOMAIN held |-> 0]
             /\ cycle' =
                   [status |-> IF BotSignals(order, rets)' = <<>>
                               THEN "returned" ELSE "running",
                    signals |-> BotSignals(order, rets)',
                    index |-> 1,
                    open_symbols |-> IF open_failed THEN {} ELSE open_truth,
                    prices |-> [symbol \in Symbols |-> 3],
                    outcomes |-> <<>>,
                    turn |-> 1 - cycle.turn,
                    slept |-> cycle.slept,
                    held_before |-> cycle.held_before,
                    carried |-> carried,
                    opened |-> DOMAIN held,
                    sold |-> SelectSeq(order, LAMBDA symbol :
                                /\ symbol \in DOMAIN held
                                /\ PreCheckSells(held[symbol])
                                /\ symbol \in accepted),
                    open_truth |-> open_truth,
                    filled_truth |-> filled_truth,
                    filled_symbols |-> IF filled_failed THEN {} ELSE filled_truth]
             /\ UNCHANGED <<tie_up, held_quantity, broker_orders>>

\* A cycle on an account with any of the positions, open orders and fills.
start_cycle == StartCycle(BotPositions, SUBSET Symbols, FilledToday)

\* A cycle on an account with no position, no open order and no fill.
start_cycle_flat == StartCycle({<< >>}, {{}}, {{}})

\* main after execute_trading_cycle has returned or raised: the sleep, with
\* the objects of the cycle gone.
sleep ==
    /\ Caught(cycle.status)
    /\ cycle' = Between("waited", cycle.turn, SecondsSlept(cycle.status),
                        DOMAIN positions)
    /\ positions' = << >>
    /\ position_additions' = << >>
    /\ capital' = 0
    /\ available_capital' = 0
    /\ pending_orders' = << >>
    /\ order_history' = <<>>
    /\ broker_orders' = << >>
    /\ created' = 0
    /\ last_call' = [op |-> "none"]
    /\ UNCHANGED <<tie_up, held_quantity>>
    /\ UNCHANGED <<price_data, now, calls, outcome, returns, signals, prev,
                   tracker_vars>>

\* Ctrl+C at any point of main: the loop is left and main returns, with
\* the objects of the cycle gone.
KeyboardInterrupt ==
    /\ cycle.status # "stopped"
    /\ cycle' = Between("stopped", cycle.turn, cycle.slept, {})
    /\ positions' = << >>
    /\ position_additions' = << >>
    /\ capital' = 0
    /\ available_capital' = 0
    /\ pending_orders' = << >>
    /\ order_history' = <<>>
    /\ broker_orders' = << >>
    /\ created' = 0
    /\ last_call' = [op |-> "none"]
    /\ UNCHANGED <<tie_up, held_quantity>>
    /\ UNCHANGED <<price_data, now, calls, outcome, returns, signals, prev,
                   tracker_vars>>

\* ------------------------------------------------------ specification
\* Ordinary market data for both symbols, every combination of holdings and
\* addition counters.
InitOrdinary ==
    /\ price_data \in {<<Item("AAPL", h), Item("MSFT", g)>> :
                          h \in HistoriesOver(OrdinaryPrices),
                          g \in HistoriesOver(OrdinaryPrices)}
    /\ positions \in Dicts(Symbols, PositionValues)
    /\ position_additions \in Dicts(Symbols, {0, max_additions - 1, max_additions})

\* Any dict of histories, zero and negative closes included, nothing held or
\* one fresh position.
InitDegenerate ==
    /\ price_data \in OrderedDicts(HistoriesOver(DegeneratePrices))
    /\ positions \in Dicts({"AAPL"}, {Position(GAIN_THRESHOLD_PCT - 1,
                                               max_holding_days - 1)})
    /\ position_additions = << >>

Init ==
    /\ InitOrdinary \/ InitDegenerate
    /\ now = 0
    /\ calls = 0
    /\ outcome = "none"
    /\ returns = <<>>
    /\ signals = <<>>
    /\ prev = [outcome |-> "none", signals |-> <<>>]
    /\ TrackerIdle
    /\ OrdersIdle
    /\ CycleIdle

Next == analyze

Spec == Init /\ [][Next]_vars

\* No analyze call has been made and none is going to be.
StrategyIdle ==
    /\ price_data = <<>>
    /\ positions = << >>
    /\ now = 0
    /\ calls = MaxCalls
    /\ outcome = "none"
    /\ returns = <<>>
    /\ signals = <<>>
    /\ prev = [outcome |-> "none", signals |-> <<>>]

\* A freshly constructed strategy, then any sequence of tracking calls.
InitTracker ==
    /\ StrategyIdle
    /\ position_additions = << >>
    /\ TrackerIdle
    /\ OrdersIdle
    /\ CycleIdle

NextTracker == update_position_tracking

SpecTracker == InitTracker /\ [][NextTracker]_vars

\* An order manager constructed with any of the capitals, then signals
\* processed and the requests they yield turned into orders.
InitSizing ==
    /\ StrategyIdle
    /\ position_additions = << >>
    /\ TrackerIdle
    /\ capital \in Capitals
    /\ tie_up \in BOOLEAN
    /\ held_quantity \in Holdings
    /\ OrdersNew
    /\ CycleIdle

NextSizing ==
    \/ process_signal
    \/ create_order_of_signal

SpecSizing == InitSizing /\ [][NextSizing]_vars

\* An order manager with or without capital, then any sequence of orders
\* created from the callers' requests, of clock ticks and of broker calls.
InitOrders ==
    /\ StrategyIdle
    /\ position_additions = << >>
    /\ TrackerIdle
    /\ capital \in {0, 100000}
    /\ tie_up = FALSE
    /\ held_quantity = << >>
    /\ OrdersNew
    /\ CycleIdle

NextOrders ==
    \/ create_order
    \/ Tick
    \/ place_order
    \/ cancel_order

SpecOrders == InitOrders /\ [][NextOrders]_vars

\* execute_trading_cycle at the head of its signal loop: the account's cash
\* is the order manager's capital, analyze has returned the signals.
InitCycle ==
    /\ price_data = <<>>
    /\ positions \in CyclePositions
    /\ position_additions = << >>
    /\ now = 0
    /\ calls = MaxCalls
    /\ outcome = "none"
    /\ returns = <<>>
    /\ signals = <<>>
    /\ prev = [outcome |-> "none", signals |-> <<>>]
    /\ TrackerIdle
    /\ capital \in Capitals
    /\ tie_up = FALSE
    /\ held_quantity = << >>
    /\ OrdersNew
    /\ \E order \in SymbolOrders, rets \in [Symbols -> CycleReturns],
          open_symbols \in SUBSET Symbols, prices \in [Symbols -> CyclePrices] :
            cycle = [status |-> IF CycleSignals(order, rets) = <<>>
                                THEN "returned" ELSE "running",
                     signals |-> CycleSignals(order, rets),
                     index |-> 1,
                     open_symbols |-> open_symbols,
                     prices |-> prices,
                     outcomes |-> <<>>]

NextCycle == process_next_signal

SpecCycle == InitCycle /\ [][NextCycle]_vars

\* main() before its first cycle.
InitBot ==
    /\ StrategyIdle
    /\ position_additions = << >>
    /\ TrackerIdle
    /\ OrdersIdle
    /\ cycle = Between("boot", 0, 0, {})

\* The steps main takes of itself.
NextMain ==
    \/ start_cycle
    \/ process_next_signal
    \/ sleep

NextBot == NextMain \/ KeyboardInterrupt

SpecBot == InitBot /\ [][NextBot]_vars

\* main on an account without positions or orders, which keeps running as
\* long as it is not interrupted.
NextMainFlat ==
    \/ start_cycle_flat
    \/ process_next_signal
    \/ sleep

NextMainLoop == NextMainFlat \/ KeyboardInterrupt

SpecMainLoop == InitBot /\ [][NextMainLoop]_vars /\ WF_vars(NextMainFlat)

\* ------------------------------------------------------------- claims
\* The last analyze call returned a list (it did not raise).
Returned == calls > 0 /\ outcome = "returned"

\* The history price_data holds for a symbol, <<>> if it holds none.
ClosesOf(s) ==
    IF s \in Keys(price_data)
    THEN (CHOOSE item \in {price_data[i] : i \in 1..Len(price_data)} :
              item.symbol = s).closes
    ELSE <<>>

\* The symbol is in price_data with at least lookback_days + 1 bars.
SufficientHistory(s) ==
    s \in Keys(price_data) /\ Len(ClosesOf(s)) >= lookback_days + 1

\* The signals of the last call that are about a symbol.
SignalsFor(s) == SelectSeq(signals, LAMBDA signal : signal.symbol = s)

\* The return the last call computed for a symbol.
ReturnOf(s) ==
    (CHOOSE r \in {returns[i] : i \in 1..Len(returns)} : r.symbol = s).return_pct

Held(s) == s \in DOMAIN positions

\* The last call emitted exactly one signal for s, of this type and confidence.
OnlySignal(s, signal_type, confidence) ==
    /\ Len(SignalsFor(s)) = 1
    /\ SignalsFor(s)[1].signal_type = signal_type
    /\ SignalsFor(s)[1].confidence = confidence

\* C1: whenever analyze returns, every held symbol with sufficient history
\* whose unrealized_pnl_percent >= gain_threshold * 100 (10.0 included) gets
\* exactly one signal, SELL with confidence 0.8, whatever days_held, the
\* return and the addition counter are.
C1_GainSellHasPriority ==
    Returned =>
        \A s \in Symbols :
            (/\ SufficientHistory(s)
             /\ Held(s)
             /\ positions[s].unrealized_pnl_percent >= GAIN_THRESHOLD_PCT)
            => OnlySignal(s, "SELL", 80)

\* C1 witness: a position exactly at the gain threshold that has also reached
\* the holding limit, whose price dropped and whose counter is below the cap,
\* sold with confidence 0.8.
C1_Witness ==
    /\ Returned
    /\ \E s \in Symbols :
        /\ SufficientHistory(s)
        /\ Held(s)
        /\ positions[s].unrealized_pnl_percent = GAIN_THRESHOLD_PCT
        /\ positions[s].days_held >= max_holding_days
        /\ LeqNegDrop(ReturnOf(s))
        /\ Get(position_additions, s, 0) < max_additions
        /\ OnlySignal(s, "SELL", 80)

\* C2: whenever analyze returns, a held symbol with sufficient history, gain
\* below the threshold and days_held >= max_holding_days (90 included) gets
\* exactly one signal, SELL with confidence 1.0, whatever the return and the
\* addition counter are; never ADD_POSITION.
C2_HoldingSell ==
    Returned =>
        \A s \in Symbols :
            (/\ SufficientHistory(s)
             /\ Held(s)
             /\ positions[s].unrealized_pnl_percent < GAIN_THRESHOLD_PCT
             /\ positions[s].days_held >= max_holding_days)
            => /\ OnlySignal(s, "SELL", 100)
               /\ \A i \in 1..Len(signals) :
                    signals[i].symbol = s => signals[i].signal_type # "ADD_POSITION"

\* C2 witness: a position held exactly max_holding_days, below the gain
\* threshold, whose price dropped with the counter below the cap (the
\* add-position rule would match), is sold with confidence 1.0.
C2_Witness ==
    /\ Returned
    /\ \E s \in Symbols :
        /\ SufficientHistory(s)
        /\ Held(s)
        /\ positions[s].unrealized_pnl_percent < GAIN_THRESHOLD_PCT
        /\ positions[s].days_held = max_holding_days
        /\ LeqNegDrop(ReturnOf(s))
        /\ Get(position_additions, s, 0) < max_additions
        /\ OnlySignal(s, "SELL", 100)

\* Neither SELL rule applies to the held symbol s and its price dropped by
\* the threshold or more.
AddCase(s) ==
    /\ SufficientHistory(s)
    /\ Held(s)
    /\ positions[s].unrealized_pnl_percent < GAIN_THRESHOLD_PCT
    /\ positions[s].days_held < max_holding_days
    /\ LeqNegDrop(ReturnOf(s))

\* C3: whenever analyze returns, for a held symbol for which neither SELL
\* rule fires and return_pct <= -drop_threshold: a counter (absent = 0) below
\* max_additions gives exactly one signal, ADD_POSITION with confidence 0.7
\* and metadata additions = counter + 1; a counter >= max_additions gives no
\* signal.
C3_AddUpToCap ==
    Returned =>
        \A s \in Symbols :
            AddCase(s) =>
                IF Get(position_additions, s, 0) < max_additions
                THEN /\ OnlySignal(s, "ADD_POSITION", 70)
                     /\ SignalsFor(s)[1].metadata =
                            [additions |-> Get(position_additions, s, 0) + 1]
                ELSE SignalsFor(s) = <<>>

\* C3 witness: one symbol at max_additions - 1 gets the last addition while
\* the other, at max_additions under the same price condition, gets nothing.
C3_Witness ==
    /\ Returned
    /\ \E s, t \in Symbols :
        /\ AddCase(s)
        /\ AddCase(t)
        /\ s \in DOMAIN position_additions
        /\ position_additions[s] = max_additions - 1
        /\ OnlySignal(s, "ADD_POSITION", 70)
        /\ SignalsFor(s)[1].metadata = [additions |-> max_additions]
        /\ t \in DOMAIN position_additions
        /\ position_additions[t] = max_additions
        /\ SignalsFor(t) = <<>>

\* C4: whenever analyze returns, a symbol with sufficient history and no
\* position gets a BUY signal with confidence 0.8 (and nothing else) if and
\* only if return_pct <= -drop_threshold, boundary included; otherwise it
\* gets no signal.
C4_BuyIffDrop ==
    Returned =>
        \A s \in Symbols :
            (SufficientHistory(s) /\ ~Held(s)) =>
                IF LeqNegDrop(ReturnOf(s))
                THEN OnlySignal(s, "BUY", 80)
                ELSE SignalsFor(s) = <<>>

\* C4 witness: prior close 100, current close 90 (return exactly -0.10), no
\* position: BUY with confidence 0.8.
C4_Witness ==
    /\ Returned
    /\ \E s \in Symbols :
        /\ ~Held(s)
        /\ ClosesOf(s) = <<100, 90>>
        /\ ReturnOf(s) = [kind |-> "finite", num |-> -10, den |-> 100]
        /\ OnlySignal(s, "BUY", 80)

\* C5: the list analyze returns never holds two signals for one symbol.
C5_OneSignalPerSymbol ==
    \A i, j \in 1..Len(signals) :
        i # j => signals[i].symbol # signals[j].symbol

\* C5 witness: a call that returned signals for two symbols, one of them a
\* held symbol whose price dropped.
C5_Witness ==
    /\ Returned
    /\ Len(signals) = 2
    /\ \E s \in Symbols : Held(s) /\ LeqNegDrop(ReturnOf(s)) /\ Len(SignalsFor(s)) = 1

\* The symbols the last call computed a return for.
Analysed == {returns[i].symbol : i \in 1..Len(returns)}

\* C6: a symbol with fewer than lookback_days + 1 bars is never analysed and
\* never in the output, held or not, and is never the cause of an error (the
\* call raises only when two symbols with sufficient history differ in
\* length); a symbol with exactly lookback_days + 1 bars is analysed whenever
\* the call returns; with no eligible symbol the result is the empty list.
C6_InsufficientHistorySkipped ==
    calls > 0 =>
        /\ \A s \in Keys(price_data) :
              Len(ClosesOf(s)) < lookback_days + 1 =>
                  s \notin Analysed /\ SignalsFor(s) = <<>>
        /\ outcome # "returned" =>
              \E s, t \in Symbols :
                  /\ SufficientHistory(s)
                  /\ SufficientHistory(t)
                  /\ Len(ClosesOf(s)) # Len(ClosesOf(t))
        /\ \A s \in Keys(price_data) :
              (Returned /\ Len(ClosesOf(s)) = lookback_days + 1) => s \in Analysed
        /\ (\A s \in Symbols : ~SufficientHistory(s)) =>
              outcome = "returned" /\ signals = <<>>

\* C6 witness: a held symbol at the gain threshold with lookback_days bars
\* gets nothing, while the other symbol, with exactly lookback_days + 1 bars,
\* is analysed and gets a signal.
C6_Witness ==
    /\ Returned
    /\ \E s, t \in Keys(price_data) :
        /\ Len(ClosesOf(s)) = lookback_days
        /\ Held(s)
        /\ positions[s].unrealized_pnl_percent >= GAIN_THRESHOLD_PCT
        /\ SignalsFor(s) = <<>>
        /\ Len(ClosesOf(t)) = lookback_days + 1
        /\ t \in Analysed
        /\ Len(SignalsFor(t)) = 1

\* (symbol, signal_type, confidence, metadata) of every signal, in order.
Project(sigs) ==
    [i \in 1..Len(sigs) |->
        [symbol |-> sigs[i].symbol, signal_type |-> sigs[i].signal_type,
         confidence |-> sigs[i].confidence, metadata |-> sigs[i].metadata]]

\* What analyze returns for the symbol s analysed alone, with the same
\* positions and counters.
AloneSignals(s) ==
    LET alone == DfData(<<Item(s, ClosesOf(s))>>)
    IN  IF alone = <<>>
        THEN <<>>
        ELSE CollectSignals(calculate_returns(alone), alone, positions, now)

\* C7: every analyze call returns normally, and the signals of each symbol
\* are those the symbol gets when it is analysed alone.
C7_SymbolsIsolated ==
    calls > 0 =>
        /\ outcome = "returned"
        /\ \A s \in Keys(price_data) :
              Project(SignalsFor(s)) = Project(AloneSignals(s))

\* The close analyze divides by for the symbol.
ReferenceClose(s) == ClosesOf(s)[Len(ClosesOf(s)) - lookback_days]

\* C8: whenever analyze returns, a symbol whose reference close is zero or
\* negative has no signal of any type.
C8_DegenerateReferenceSkipped ==
    Returned =>
        \A s \in Symbols :
            (SufficientHistory(s) /\ ReferenceClose(s) <= 0)
            => SignalsFor(s) = <<>>

\* The float return_pct has the value num / den.
SameValue(return_pct, num, den) ==
    IF return_pct.den = 0 \/ den = 0
    THEN return_pct.kind = Divide(num, den).kind
    ELSE return_pct.num * den = num * return_pct.den

\* C9 as stated: the return of a symbol is taken against the close
\* lookback_days + 1 bars before the last one (for the histories that have
\* such a bar).
C9_ReferenceOneBarEarlier ==
    Returned =>
        \A s \in Analysed :
            LET closes == ClosesOf(s)
                n == Len(closes)
            IN  n >= lookback_days + 2 =>
                    SameValue(ReturnOf(s),
                              closes[n] - closes[n - lookback_days - 1],
                              closes[n - lookback_days - 1])

\* C9 amended: whenever analyze returns, every symbol with sufficient history
\* has a return, and it is (close[last] - close[last - lookback_days]) /
\* close[last - lookback_days]: the reference bar is lookback_days bars before
\* the last one, for every history length >= lookback_days + 1.
C9_ReferenceLookbackBars ==
    Returned =>
        \A s \in Symbols :
            SufficientHistory(s) =>
                LET closes == ClosesOf(s)
                    n == Len(closes)
                IN  /\ s \in Analysed
                    /\ ReturnOf(s).num = closes[n] - closes[n - lookback_days]
                    /\ ReturnOf(s).den = closes[n - lookback_days]
                    /\ SameValue(ReturnOf(s),
                                 closes[n] - closes[n - lookback_days],
                                 closes[n - lookback_days])

\* C9 witness: a history in which the bar lookback_days + 1 before the last
\* differs from the bar lookback_days before the last, and the return is the
\* one against the latter and not the one against the former.
C9_Witness ==
    /\ Returned
    /\ \E s \in Analysed :
        LET closes == ClosesOf(s)
            n == Len(closes)
        IN  /\ n >= lookback_days + 2
            /\ closes[n - lookback_days - 1] # closes[n - lookback_days]
            /\ SameValue(ReturnOf(s), closes[n] - closes[n - lookback_days],
                         closes[n - lookback_days])
            /\ ~SameValue(ReturnOf(s), closes[n] - closes[n - lookback_days - 1],
                          closes[n - lookback_days - 1])

\* C10: a second analyze call on the same instance with the same arguments
\* ends as the first did and returns the same (symbol, signal_type,
\* confidence, metadata) sequence, and no analyze call changes
\* position_additions or the positions mapping.
C10_DeterministicNoSideEffect ==
    /\ [](calls >= 2 =>
            /\ prev.outcome = outcome
            /\ Project(prev.signals) = Project(signals))
    /\ [][/\ position_additions' = position_additions
          /\ positions' = positions]_vars

\* C10 witness: two calls at different clock readings that both returned the
\* same two signals, one of them an ADD_POSITION (which reads the counters).
C10_Witness ==
    /\ calls = 2
    /\ Returned
    /\ Len(signals) = 2
    /\ \E i \in 1..2 : signals[i].signal_type = "ADD_POSITION"
    /\ signals[1].timestamp # prev.signals[1].timestamp
    /\ Project(prev.signals) = Project(signals)

\* C11: after any sequence of update_position_tracking calls every entry
\* equals the number of 'added' calls since the symbol's most recent 'opened'
\* or 'closed' call and is never negative; and every call does what its
\* action says: 'opened' sets the entry to 0, 'added' adds 1 to it (absent
\* counted as 0), 'closed' removes it, any other action changes nothing, and
\* the entries of the other symbols stay as they were.
C11_TrackerCounts ==
    /\ [](\A s \in DOMAIN position_additions :
            position_additions[s] = added_since[s] /\ position_additions[s] >= 0)
    /\ [][LET symbol == last_update'.symbol
              action == last_update'.action
          IN  /\ action = "opened" =>
                    /\ symbol \in DOMAIN position_additions'
                    /\ position_additions'[symbol] = 0
              /\ action = "added" =>
                    /\ symbol \in DOMAIN position_additions'
                    /\ position_additions'[symbol] =
                          Get(position_additions, symbol, 0) + 1
              /\ action = "closed" => symbol \notin DOMAIN position_additions'
              /\ action \notin {"opened", "added", "closed"} =>
                    position_additions' = position_additions
              /\ \A t \in Symbols \ {symbol} :
                    /\ (t \in DOMAIN position_additions') =
                          (t \in DOMAIN position_additions)
                    /\ t \in DOMAIN position_additions =>
                          position_additions'[t] = position_additions[t]
         ]_vars

\* C11 witness: 'opened' called for a symbol whose counter was positive set
\* it back to 0 and left the other symbol's positive counter alone.
C11_Witness ==
    /\ last_update.action = "opened"
    /\ \E s, t \in Symbols :
        /\ s = last_update.symbol
        /\ t # s
        /\ s \in DOMAIN last_update.before
        /\ last_update.before[s] > 0
        /\ position_additions[s] = 0
        /\ t \in DOMAIN position_additions
        /\ position_additions[t] > 0

\* ------------------------------------------------------ order claims
\* The last call was process_signal.
Processed == last_call.op = "process_signal"

\* process_signal returned an order request.
Requested == Processed /\ last_call.result.kind = "OrderRequest"

\* C12: process_signal returns none for every signal of confidence below
\* 0.5; a confidence of exactly 0.5 is treated as a confident signal is; and
\* no call changes available_capital, pending_orders or order_history.
C12_ConfidenceGate ==
    [][last_call'.op = "process_signal" =>
        /\ last_call'.signal.confidence < 50 => last_call'.result = None
        /\ last_call'.signal.confidence = 50 =>
              last_call'.result =
                  ProcessSignalResult([last_call'.signal EXCEPT !.confidence = 80],
                                      last_call'.current_price)
        /\ UNCHANGED <<capital, available_capital, pending_orders, order_history>>
      ]_vars

\* A signal of confidence exactly 0.5 has yielded a request while an order
\* was pending.
C12_Witness ==
    /\ Requested
    /\ last_call.signal.confidence = 50
    /\ pending_orders # << >>

\* process_signal was called with a confident signal and a price above 0.
ConfidentCall ==
    /\ Processed
    /\ last_call.signal.confidence >= 50
    /\ last_call.current_price > 0

\* The size computed in the call process_signal has just made.
ComputedSize ==
    _calculate_position_size(last_call.signal, last_call.current_price)

\* C13: a BUY or ADD_POSITION signal of confidence >= 0.5 whose computed
\* size is not zero yields a market BUY request of the computed size.
C13_BuyAndAddMapToBuy ==
    (/\ ConfidentCall
     /\ last_call.signal.signal_type \in {"BUY", "ADD_POSITION"}
     /\ ComputedSize # 0)
        => last_call.result =
               OrderRequest(last_call.signal.symbol, "BUY", ComputedSize,
                            "MARKET", <<>>, <<>>)

\* C14: a confident SELL signal for a held symbol yields a SELL request for
\* the quantity held, whatever the available capital.
C14_SellsHeldQuantity ==
    (/\ ConfidentCall
     /\ last_call.signal.signal_type = "SELL"
     /\ last_call.signal.symbol \in DOMAIN held_quantity)
        => /\ last_call.result.kind = "OrderRequest"
           /\ last_call.result.side = "SELL"
           /\ last_call.result.quantity = held_quantity[last_call.signal.symbol]

\* |x|
Abs(x) == IF x < 0 THEN -x ELSE x

\* The call sizes an entry or an exit: a confident BUY or SELL signal at a
\* price above 0 with no capital owed.
SizedCall ==
    /\ ConfidentCall
    /\ last_call.signal.signal_type \in {"BUY", "SELL"}
    /\ available_capital >= 0

\* The quantity the call produced, 0 when it returned none.
ProducedQuantity ==
    IF last_call.result.kind = "OrderRequest" THEN last_call.result.quantity ELSE 0

\* C15: with available_capital >= 0 and current_price > 0 the quantity
\* produced is the multiple of 0.01 nearest to
\* (available_capital * 5 / 100) / current_price, costs no more than
\* available_capital, is none exactly when that multiple is 0, and is the
\* same in the next call at the same price.
C15_SizeRoundedAndBounded ==
    [][SizedCall' =>
        /\ last_call'.result.kind \in {"OrderRequest", "None"}
        /\ 2 * Abs(ProducedQuantity' * 100 * last_call'.current_price
                     - POSITION_SIZE_PERCENT * available_capital')
              <= 100 * last_call'.current_price
        /\ ProducedQuantity' * last_call'.current_price <= available_capital'
        /\ last_call'.result.kind = "OrderRequest" => ProducedQuantity' # 0
        /\ (SizedCall /\ last_call.current_price = last_call'.current_price)
              => ProducedQuantity' = ProducedQuantity
      ]_vars

\* A request whose quantity was rounded up: 16.67 shares for 16.66...
C15_Witness ==
    /\ SizedCall
    /\ Requested
    /\ last_call.result.quantity * 100 * last_call.current_price
          > POSITION_SIZE_PERCENT * available_capital

\* create_order was called and raised.
Rejected == last_call.op = "create_order" /\ last_call.result.kind = "ValueError"

\* create_order was called and returned an Order.
Created == last_call.op = "create_order" /\ last_call.result.kind = "Order"

\* C16: create_order raises for a quantity <= 0, for a LIMIT request with no
\* limit price and for a STOP or STOP_LIMIT request with no stop price, and
\* then leaves pending_orders, order_history and available_capital as they
\* were; any other request is accepted and its Order is tracked.
C16_InvalidRequestsRejected ==
    [][last_call'.op = "create_order" =>
        IF \/ last_call'.request.quantity <= 0
           \/ /\ last_call'.request.order_type = "LIMIT"
              /\ last_call'.request.limit_price = <<>>
           \/ /\ last_call'.request.order_type \in {"STOP", "STOP_LIMIT"}
              /\ last_call'.request.stop_price = <<>>
        THEN /\ Rejected'
             /\ UNCHANGED <<pending_orders, order_history, available_capital>>
        ELSE /\ Created'
             /\ last_call'.result.order_id \in DOMAIN pending_orders'
             /\ pending_orders'[last_call'.result.order_id] = last_call'.result
      ]_vars

\* A request was rejected while an order was pending and capital reserved.
C16_Witness ==
    /\ Rejected
    /\ pending_orders # << >>
    /\ available_capital # capital

\* C17: successful create_order calls yield distinct order_ids, so that
\* pending_orders has one entry for each order created.
C17_OrderIdsDistinct == Cardinality(DOMAIN pending_orders) = created

\* C18: a BUY order created reserves quantity * limit_price of
\* available_capital when the request has a limit price and nothing when it
\* has none; a SELL order created reserves nothing; capital never changes.
C18_ReservationOnBuyOnly ==
    [][/\ capital' = capital
       /\ Created' =>
            available_capital' =
                IF last_call'.request.side = "SELL"
                THEN available_capital
                ELSE IF last_call'.request.limit_price = <<>>
                THEN available_capital
                ELSE available_capital
                        - last_call'.request.quantity
                            * last_call'.request.limit_price[1]
      ]_vars

\* A limit BUY has been created after another order and capital is reserved.
C18_Witness ==
    /\ Created
    /\ last_call.request.side = "BUY"
    /\ last_call.request.limit_price = <<10>>
    /\ created = 2
    /\ available_capital < capital

\* The order_ids of the orders in order_history.
HistoryIds == {order_history[i].order_id : i \in DOMAIN order_history}

\* C19: an order stays in pending_orders until it is filled or cancelled
\* and is then moved to order_history, never being in both.
C19_SettledOrdersMoveToHistory ==
    /\ DOMAIN pending_orders \cap HistoryIds = {}
    /\ \A order_id \in DOMAIN broker_orders :
          broker_orders[order_id] = "cancelled"
              => /\ order_id \notin DOMAIN pending_orders
                 /\ order_id \in HistoryIds

\* C20: a request that create_order rejects costs the cycle that one signal
\* only: the cycle ends having dealt with every one of its signals.
C20_InvalidRequestSkipsOneSignal ==
    cycle.status \notin {"idle", "running"}
        => /\ cycle.status = "returned"
           /\ Len(cycle.outcomes) = Len(cycle.signals)

\* C26: an order manager created with capital >= 0 keeps
\* 0 <= available_capital <= capital whatever orders are created.
C26_AvailableWithinCapital ==
    capital >= 0 => (0 <= available_capital /\ available_capital <= capital)

\* A cycle has ended by raising.
CycleFailed == cycle.status \in {"ValueError", "Exception"}

\* C22: a cycle that fails does not end the process: unless the shutdown
\* signal arrives, main waits and starts another cycle; main stops only on
\* the shutdown signal.
C22_FailureDoesNotStopMain ==
    /\ \A turn \in {0, 1} :
          (CycleFailed /\ cycle.turn = turn)
              ~> (cycle.turn # turn \/ cycle.status = "stopped")
    /\ [][CycleFailed => cycle'.status \in {cycle.status, "waited", "stopped"}]_vars

\* The signal loop has raised with a signal left, in a cycle that follows
\* one that failed.
C22_Witness ==
    /\ cycle.status = "ValueError"
    /\ cycle.slept = 30
    /\ Len(cycle.signals) = 2

\* C21: a cycle starts only when main has started none yet or has slept
\* since the last one ended, by returning or by raising: cycles never
\* overlap and a pause lies between any two.
C21_CyclesSerialized ==
    [][cycle'.turn # cycle.turn =>
          \/ cycle.status = "boot"
          \/ cycle.status = "waited" /\ cycle.slept > 0
      ]_vars

\* A cycle is in its signal loop after one that raised and the pause.
C21_Witness ==
    /\ cycle.status = "running"
    /\ cycle.slept = 30
    /\ cycle.index = 2

\* The places in the signal list whose order the signal loop has placed.
PlacedByLoop ==
    {i \in 1..Len(cycle.outcomes) : cycle.outcomes[i] = "placed"}

\* The symbols for which the signal loop has placed an order of the side.
LoopPlaced(side) ==
    {cycle.signals[i].symbol :
        i \in {j \in PlacedByLoop : cycle.signals[j].signal_type = side}}

\* The symbols whose position the pre-check has sold.
PreCheckSold == {cycle.sold[i] : i \in DOMAIN cycle.sold}

\* C23: when a cycle returns, a SELL order has been placed for the symbol
\* of every SELL signal analyze returned in it.
C23_SellSignalsPlaced ==
    cycle.status = "returned" =>
        \A i \in DOMAIN cycle.signals :
            cycle.signals[i].signal_type = "SELL"
                => cycle.signals[i].symbol \in PreCheckSold \cup LoopPlaced("SELL")

\* C24: no BUY order is placed for a symbol that has a position, an open
\* order or an order filled today, also when a query for the orders fails.
C24_NoDuplicateBuy ==
    \A symbol \in LoopPlaced("BUY") :
        /\ symbol \notin DOMAIN positions
        /\ symbol \notin cycle.open_truth
        /\ symbol \notin cycle.filled_truth

\* C25: the addition counter is carried from cycle to cycle: a position
\* open since before the last cycle is not recorded as opened again.
C25_CounterCarriedOver == cycle.opened \cap cycle.carried = {}

\* The orders a cycle has placed for the symbol.
OrdersPlaced(symbol) ==
    Cardinality({i \in DOMAIN cycle.sold : cycle.sold[i] = symbol})
        + Cardinality({i \in PlacedByLoop : cycle.signals[i].symbol = symbol})

\* C27: a cycle places at most one order per symbol: for a held symbol the
\* SELL of the pre-check, at the gain threshold only, for any other symbol
\* a BUY of the signal loop.
C27_OneOrderPerSymbol ==
    \A symbol \in Symbols :
        /\ OrdersPlaced(symbol) <= 1
        /\ symbol \in DOMAIN positions =>
              /\ symbol \notin LoopPlaced("BUY") \cup LoopPlaced("SELL")
              /\ symbol \in PreCheckSold =>
                    positions[symbol].unrealized_pnl_percent >= GAIN_THRESHOLD_PCT
        /\ symbol \notin DOMAIN positions =>
              /\ symbol \notin PreCheckSold
              /\ symbol \notin LoopPlaced("SELL")

\* A cycle has returned having sold one position and bought another symbol.
C27_Witness ==
    /\ cycle.status = "returned"
    /\ Len(cycle.sold) = 1
    /\ LoopPlaced("BUY") # {}
    /\ Len(cycle.signals) = 2

====
